---- MODULE Spec2Model ----
(***************************************************************************)
(* Model of src/options/mkoptions.py, the generator that turns the         *)
(* *_options.toml option modules into MODULE_options.{h,cpp},              *)
(* options_holder.h and options.cpp.                                       *)
(*                                                                         *)
(* Text that the generator compares, splits, prefixes or sorts (long       *)
(* spellings, display names, smt names) is a sequence of character codes,  *)
(* so that split('='), 'no-' + name and the ordering used by sorted() are  *)
(* computed as Python computes them.  Text that is only copied around      *)
(* (types, categories, handlers, help) is a TLA+ string.  The value None   *)
(* of an attribute is the empty text: Option.__init__ drops every falsy    *)
(* value, so an attribute given as '' and an absent one are the same       *)
(* object state.                                                           *)
(*                                                                         *)
(* Not modelled: unreadable templates and unwritable destinations          *)
(* (IOError); the interpreter is Python 3 with assertions enabled.         *)
(***************************************************************************)
EXTENDS Integers, Sequences, FiniteSets, TLC

(***************************************************************************)
(* Bounds of the model: configuration files on a command line, option      *)
(* declarations in all of them together, processes started one after the   *)
(* other on the same command line.                                         *)
(***************************************************************************)
MaxFiles == 2
MaxOpts == 3
MaxRuns == 2
MaxCalls == 2

(***************************************************************************)
(* Character codes and the texts used as inputs.                           *)
(***************************************************************************)
None == <<>>
CH_DASH == 45
CH_EQ == 61
CH_COLON == 58
CH_SPACE == 32
CH_BAR == 124
t_foo == <<102, 111, 111>>
t_bar == <<98, 97, 114>>
t_no_foo == <<110, 111, 45, 102, 111, 111>>
t_foo_arg == <<102, 111, 111, 61, 65>>
t_bar_arg == <<98, 97, 114, 61, 65>>
t_dd_foo == <<45, 45, 102, 111, 111>>
t_baz == <<98, 97, 122>>

(* Python's < on str: lexicographic on code points, a proper prefix is smaller *)
RECURSIVE StrLess(_, _)
StrLess(a, b) ==
  IF b = <<>> THEN FALSE
  ELSE IF a = <<>> THEN TRUE
  ELSE IF Head(a) # Head(b) THEN Head(a) < Head(b)
  ELSE StrLess(Tail(a), Tail(b))

startswith(s, prefix) ==
  /\ Len(s) >= Len(prefix)
  /\ SubSeq(s, 1, Len(prefix)) = prefix

Contains(s, c) == \E i \in 1..Len(s) : s[i] = c

(* str.split(sep): the pieces of s between the occurrences of sep *)
RECURSIVE Split(_, _)
Split(s, sep) ==
  IF ~Contains(s, sep) THEN <<s>>
  ELSE LET i == CHOOSE i \in 1..Len(s) :
                  s[i] = sep /\ \A j \in 1..(i - 1) : s[j] # sep
       IN <<SubSeq(s, 1, i - 1)>> \o Split(SubSeq(s, i + 1, Len(s)), sep)

(* sep.join(parts) *)
RECURSIVE Join(_, _)
Join(parts, sep) ==
  IF parts = <<>> THEN <<>>
  ELSE IF Len(parts) = 1 THEN parts[1]
  ELSE parts[1] \o sep \o Join(Tail(parts), sep)

(***************************************************************************)
(* Allowed attributes for module/option.                                   *)
(***************************************************************************)
MODULE_ATTR_REQ == {"id", "name", "header"}
MODULE_ATTR_ALL == MODULE_ATTR_REQ \cup {"option"}
OPTION_ATTR_REQ == {"category", "type"}
OPTION_ATTR_ALL == OPTION_ATTR_REQ \cup
  {"name", "help", "help_mode", "smt_name", "short", "long", "default",
   "includes", "handler", "predicates", "read_only", "alternate", "mode"}
CATEGORY_VALUES == {"common", "expert", "regular", "undocumented"}

g_getopt_long_start == 256

(***************************************************************************)
(* Errors.  die() is sys.exit('[error] ...'): the generator's own          *)
(* diagnostic.  A fault is an exception nobody catches (TypeError,         *)
(* AssertionError, UnboundLocalError): the interpreter prints a traceback  *)
(* and the process status is non-zero as well.                             *)
(***************************************************************************)
NoError == [kind |-> "none", msg |-> ""]
die(msg) == [kind |-> "die", msg |-> msg]
fault(exc) == [kind |-> "fault", msg |-> exc]

(* perr: msg_suffix is assigned only under `if option:` *)
perr(msg, hasOption) ==
  IF hasOption THEN die(msg) ELSE fault("UnboundLocalError")

(***************************************************************************)
(* class Option: every attribute starts as None, then the defaults, then   *)
(* every declared attribute whose value is truthy (read_only and alternate *)
(* are taken even when False).                                             *)
(***************************************************************************)
SeqAttrs ==
  {"name", "long", "short", "smt_name", "mode", "includes", "predicates"}
NoneOf(k) == IF k \in SeqAttrs THEN <<>> ELSE ""
OptionDefault(k) ==
  CASE k = "read_only" -> FALSE
    [] k = "alternate" -> TRUE
    [] OTHER -> NoneOf(k)
Truthy(k, v) == IF k \in {"read_only", "alternate"} THEN v = TRUE ELSE v # NoneOf(k)

Option(d, filename) ==
  [k \in OPTION_ATTR_ALL \cup {"filename"} |->
     IF k = "filename" THEN filename
     ELSE IF k \in DOMAIN d /\ (k \in {"read_only", "alternate"} \/ Truthy(k, d[k]))
          THEN d[k]
          ELSE OptionDefault(k)]

(* class Module: attributes of the document, options filled by parse_module *)
Module(d, options) ==
  [id |-> d.id, name |-> d.name, header |-> d.header, options |-> options]

long_get_option(name) ==
  IF Contains(name, CH_EQ)
  THEN SubSeq(name, 1, (CHOOSE i \in 1..Len(name) :
                          /\ name[i] = CH_EQ
                          /\ \A j \in 1..(i - 1) : name[j] # CH_EQ) - 1)
  ELSE name

(***************************************************************************)
(* check_attribs: both diagnostics go through perr without an option.      *)
(***************************************************************************)
check_attribs(req_attribs, valid_attribs, attribs) ==
  IF \E k \in req_attribs : k \notin DOMAIN attribs
  THEN perr("required attribute not specified", FALSE)
  ELSE IF \E k \in DOMAIN attribs : k \notin valid_attribs
  THEN perr("invalid attribute specified", FALSE)
  ELSE NoError

(***************************************************************************)
(* check_unique / check_long, on the cache g_long_cache.  The result is    *)
(* the cache after the call and the error raised, if any.                  *)
(***************************************************************************)
check_unique(filename, value, cache) ==
  IF value \in DOMAIN cache
  THEN [cache |-> cache, err |-> perr("already defined", FALSE)]
  ELSE [cache |-> [v \in DOMAIN cache \cup {value} |->
                     IF v = value THEN filename ELSE cache[v]],
        err |-> NoError]

LongRegexChar(c) ==
  \/ c \in 48..57
  \/ c \in 97..122
  \/ c \in 65..90
  \/ c = CH_DASH
  \/ c = CH_EQ

t_no_dash == <<110, 111, 45>>

(* check_long that forgets to reserve the negated spelling of a bool *)
check_long_without_negation(filename, long_name, ctype, cache) ==
  IF long_name = None THEN [cache |-> cache, err |-> NoError]
  ELSE IF startswith(long_name, <<CH_DASH, CH_DASH>>)
  THEN [cache |-> cache, err |-> perr("remove -- prefix from long", TRUE)]
  ELSE IF \E i \in 1..Len(long_name) : ~LongRegexChar(long_name[i])
  THEN [cache |-> cache, err |-> perr("long does not match regex criteria", TRUE)]
  ELSE check_unique(filename, long_get_option(long_name), cache)

check_long(filename, long_name, ctype, cache) ==
  IF long_name = None THEN [cache |-> cache, err |-> NoError]
  ELSE IF startswith(long_name, <<CH_DASH, CH_DASH>>)
  THEN [cache |-> cache, err |-> perr("remove -- prefix from long", TRUE)]
  ELSE IF \E i \in 1..Len(long_name) : ~LongRegexChar(long_name[i])
  THEN [cache |-> cache, err |-> perr("long does not match regex criteria", TRUE)]
  ELSE LET name == long_get_option(long_name)
           r1 == check_unique(filename, name, cache)
       IN IF r1.err # NoError THEN r1
          ELSE IF ctype = "bool"
          THEN check_unique(filename, t_no_dash \o name, r1.cache)
          ELSE r1

(***************************************************************************)
(* parse_module: the checks on one option declaration, in the code's order *)
(***************************************************************************)
(* parse_option that does not compare the default with the mode's keys *)
parse_option_without_default_check(attribs, filename) ==
  LET ca == check_attribs(OPTION_ATTR_REQ, OPTION_ATTR_ALL, attribs)
      option == Option(attribs, filename)
  IN IF ca # NoError THEN ca
     ELSE IF option.mode # None /\ option.help_mode = ""
     THEN perr("defines modes but no help_mode", TRUE)
     ELSE IF option.mode # None /\ option.handler # ""
     THEN perr("defines modes and a handler", TRUE)
     ELSE IF option.short # None /\ option.long = None
     THEN perr("short option specified but no long option", TRUE)
     ELSE IF option.type = "bool" /\ option.handler # ""
     THEN perr("defining handlers for bool options is not allowed", TRUE)
     ELSE IF option.category # "undocumented" /\ option.help = ""
     THEN perr("help text required", TRUE)
     ELSE NoError

ModeKeys(mode) == {mode[i].key : i \in 1..Len(mode)}

parse_option(attribs, filename) ==
  LET ca == check_attribs(OPTION_ATTR_REQ, OPTION_ATTR_ALL, attribs)
      option == Option(attribs, filename)
  IN IF ca # NoError THEN ca
     ELSE IF option.mode # None /\ option.help_mode = ""
     THEN perr("defines modes but no help_mode", TRUE)
     ELSE IF option.mode # None /\ option.handler # ""
     THEN perr("defines modes and a handler", TRUE)
     ELSE IF option.mode # None /\ option.default # ""
             /\ option.default \notin ModeKeys(option.mode)
     THEN perr("invalid default value", TRUE)
     ELSE IF option.short # None /\ option.long = None
     THEN perr("short option specified but no long option", TRUE)
     ELSE IF option.type = "bool" /\ option.handler # ""
     THEN perr("defining handlers for bool options is not allowed", TRUE)
     ELSE IF option.category # "undocumented" /\ option.help = ""
     THEN perr("help text required", TRUE)
     ELSE NoError

(* the loop over module['option']: the options built before the first error *)
RECURSIVE parse_options(_, _, _)
parse_options(decls, filename, acc) ==
  IF decls = <<>> THEN [options |-> acc, err |-> NoError]
  ELSE LET e == parse_option(Head(decls), filename)
       IN IF e # NoError THEN [options |-> acc, err |-> e]
          ELSE parse_options(Tail(decls), filename,
                             Append(acc, Option(Head(decls), filename)))

parse_module(filename, module) ==
  LET ca == check_attribs(MODULE_ATTR_REQ, MODULE_ATTR_ALL, module)
  IN IF ca # NoError THEN [module |-> Module([id |-> "", name |-> "", header |-> <<>>], <<>>), err |-> ca]
     ELSE IF "option" \in DOMAIN module
     THEN LET r == parse_options(module.option, filename, <<>>)
          IN [module |-> Module(module, r.options), err |-> r.err]
     ELSE [module |-> Module(module, <<>>), err |-> NoError]

(***************************************************************************)
(* sorted(module.options, key=lambda x: x.long if x.long else x.name).     *)
(* sorted() is stable.  A key of None cannot be compared: with two or more *)
(* options every key takes part in a comparison, so one None key raises    *)
(* TypeError; a single option is never compared.                           *)
(***************************************************************************)
OptionKey(x) == IF x.long # None THEN x.long ELSE x.name

(* an insertion that ignores the key: the options stay in declaration order *)
InsertByKey_unsorted(s, x) == Append(s, x)

InsertByKey(s, x) ==
  LET n == Cardinality({i \in 1..Len(s) : ~StrLess(OptionKey(x), OptionKey(s[i]))})
  IN SubSeq(s, 1, n) \o <<x>> \o SubSeq(s, n + 1, Len(s))

RECURSIVE StableSort(_)
StableSort(s) ==
  IF s = <<>> THEN <<>>
  ELSE InsertByKey(StableSort(SubSeq(s, 1, Len(s) - 1)), s[Len(s)])

SortFaults(options) ==
  /\ Len(options) >= 2
  /\ \E i \in 1..Len(options) : OptionKey(options[i]) = None

sorted_options(options) ==
  IF SortFaults(options) THEN <<>> ELSE StableSort(options)

(***************************************************************************)
(* write_file and the destination directory: a map from file name to       *)
(* content.  A file is opened for writing only when it does not exist or   *)
(* its content differs.                                                    *)
(***************************************************************************)
NeedsWrite(dir, fname, content) ==
  ~(fname \in DOMAIN dir /\ dir[fname] = content)

write_file(dir, fname, content) ==
  IF NeedsWrite(dir, fname, content)
  THEN [f \in DOMAIN dir \cup {fname} |-> IF f = fname THEN content ELSE dir[f]]
  ELSE dir

(***************************************************************************)
(* codegen_module: the per-module pass.                                    *)
(***************************************************************************)
ArgumentTypes(ctype) == ctype \notin {"bool", "void"}

(* lines 477-486 and the assert of line 526, for one option of the loop *)
codegen_module_option_error(option) ==
  IF option.name = None THEN NoError
  ELSE IF option.long # None /\ ArgumentTypes(option.type)
          /\ ~Contains(option.long, CH_EQ)
  THEN die("needs an argument description")
  ELSE IF option.long # None /\ ~ArgumentTypes(option.type)
          /\ Contains(option.long, CH_EQ)
  THEN die("must not have an argument description")
  ELSE IF option.mode # None /\ option.long = None
  THEN fault("AssertionError")
  ELSE NoError

codegen_module_error(module) ==
  IF SortFaults(module.options) THEN fault("TypeError")
  ELSE LET so == sorted_options(module.options)
           bad == {i \in 1..Len(so) : codegen_module_option_error(so[i]) # NoError}
       IN IF bad = {} THEN NoError
          ELSE codegen_module_option_error(
                 so[CHOOSE i \in bad : \A j \in bad : i <= j])

IsNamed(option) == option.name # None

(* the options the per-module pass emits, in emission order *)
codegen_module_emitted(module) ==
  SelectSeq(sorted_options(module.options), IsNamed)

LongName(option) ==
  IF option.long # None THEN long_get_option(option.long) ELSE <<>>

(* what MODULE_options.h shows of one option *)
render_h(option) ==
  [name |-> option.name, type |-> option.type, default |-> option.default,
   long_name |-> LongName(option), read_only |-> option.read_only,
   mode |-> [i \in 1..Len(option.mode) |-> option.mode[i].key]]

(* help_mode_format that marks no mode value as the default *)
help_mode_format_unmarked(option) ==
  [help_mode |-> option.help_mode,
   long |-> LongName(option),
   values |-> [i \in 1..Len(option.mode) |->
                 [name |-> option.mode[i].name,
                  is_default |-> FALSE,
                  help |-> IF "help" \in DOMAIN option.mode[i]
                           THEN <<option.mode[i].help>> ELSE <<>>]]]

(* help_mode_format: the text the generated string-to-mode parser prints   *)
(* for the argument "help"                                                 *)
help_mode_format(option) ==
  [help_mode |-> option.help_mode,
   long |-> LongName(option),
   values |-> [i \in 1..Len(option.mode) |->
                 [name |-> option.mode[i].name,
                  is_default |-> /\ option.mode[i].key = option.default
                                 /\ option.mode[i].name # "default",
                  help |-> IF "help" \in DOMAIN option.mode[i]
                           THEN <<option.mode[i].help>> ELSE <<>>]]]

(* what MODULE_options.cpp shows of one option *)
render_cpp(option) ==
  [name |-> option.name, read_only |-> option.read_only,
   help |-> IF option.mode # None THEN help_mode_format(option)
            ELSE [help_mode |-> "", long |-> <<>>, values |-> <<>>],
   type |-> IF option.mode # None THEN option.type ELSE "",
   mode |-> option.mode,
   help_mode |-> IF option.mode # None THEN option.help_mode ELSE "",
   default |-> IF option.mode # None THEN option.default ELSE "",
   long |-> IF option.mode # None THEN LongName(option) ELSE <<>>]

(* filename = os.path.splitext(os.path.split(module.header)[1])[0] *)
header_filename(header) == header[2]

module_h_content(module) ==
  LET em == codegen_module_emitted(module)
  IN [tpl |-> "module_template.h",
      filename |-> header_filename(module.header),
      header |-> module.header,
      id |-> module.id,
      decls |-> [i \in 1..Len(em) |-> render_h(em[i])]]

module_cpp_content(module) ==
  LET em == codegen_module_emitted(module)
  IN [tpl |-> "module_template.cpp",
      filename |-> header_filename(module.header),
      defs |-> [i \in 1..Len(em) |-> render_cpp(em[i])]]

(* the destination directory after codegen_module(module) returned *)
codegen_module(module, dir) ==
  LET fn == header_filename(module.header)
      d1 == write_file(dir, <<fn, "h">>, module_h_content(module))
  IN write_file(d1, <<fn, "cpp">>, module_cpp_content(module))

codegen_module_writes(module, dir) ==
  LET fn == header_filename(module.header)
      d1 == write_file(dir, <<fn, "h">>, module_h_content(module))
  IN (IF NeedsWrite(dir, <<fn, "h">>, module_h_content(module)) THEN 1 ELSE 0)
     + (IF NeedsWrite(d1, <<fn, "cpp">>, module_cpp_content(module)) THEN 1 ELSE 0)

(***************************************************************************)
(* Help text: the label of an option and its entry in a help block.        *)
(***************************************************************************)
(* help_format_options that leaves the argument name off the short form *)
help_format_options_without_arg(short_name, long_name) ==
  LET l == IF long_name # None
           THEN <<<<CH_DASH, CH_DASH>> \o long_name>> ELSE <<>>
      sh == IF short_name # None THEN <<<<CH_DASH>> \o short_name>> ELSE <<>>
  IN Join(l \o sh, <<CH_SPACE, CH_BAR, CH_SPACE>>)

help_format_options(short_name, long_name) ==
  LET l == IF long_name # None
           THEN <<<<CH_DASH, CH_DASH>> \o long_name>> ELSE <<>>
      arg == IF long_name # None /\ Len(Split(long_name, CH_EQ)) > 1
             THEN Split(long_name, CH_EQ)[2] ELSE None
      sh == IF short_name # None
            THEN IF arg # None
                 THEN <<<<CH_DASH>> \o short_name \o <<CH_SPACE>> \o arg>>
                 ELSE <<<<CH_DASH>> \o short_name>>
            ELSE <<>>
  IN Join(l \o sh, <<CH_SPACE, CH_BAR, CH_SPACE>>)

(* help_format: the entry built from the label and the message *)
help_format(help_cmd, opts) == [opts |-> opts, text |-> help_cmd]

(* docgen that documents the options of every category *)
docgen_every_category(option) ==
  LET msg == IF option.help # "" THEN option.help ELSE "[undocumented]"
      opts == help_format_options(option.short, option.long)
      help_cmd == [msg |-> msg, experts |-> option.category = "expert",
                   star |-> option.type = "bool" /\ option.alternate]
      entry == IF opts # <<>> THEN <<help_format(help_cmd, opts)>> ELSE <<>>
  IN IF option.category = "common"
     THEN [common |-> entry, others |-> <<>>]
     ELSE [common |-> <<>>, others |-> entry]

(* docgen / docgen_option: what one option adds to help_common/help_others *)
docgen(option) ==
  LET msg == IF option.help # "" THEN option.help ELSE "[undocumented]"
      opts == help_format_options(option.short, option.long)
      help_cmd == [msg |-> msg, experts |-> option.category = "expert",
                   star |-> option.type = "bool" /\ option.alternate]
      entry == IF opts # <<>> /\ option.category # "undocumented"
               THEN <<help_format(help_cmd, opts)>> ELSE <<>>
  IN IF option.category = "common"
     THEN [common |-> entry, others |-> <<>>]
     ELSE [common |-> <<>>, others |-> entry]

(***************************************************************************)
(* codegen_all_modules: the global pass.                                   *)
(***************************************************************************)
(* the asserts of lines 636, 637 and 664, for one option of the loop *)
codegen_all_option_error(option) ==
  IF option.type = "void" /\ option.name # None
  THEN fault("AssertionError")
  ELSE IF option.name = None /\ option.smt_name = None
          /\ option.short = None /\ option.long = None
  THEN fault("AssertionError")
  ELSE IF option.predicates # <<>> /\ option.type = "void"
  THEN fault("AssertionError")
  ELSE NoError

codegen_all_module_error(module) ==
  IF SortFaults(module.options) THEN fault("TypeError")
  ELSE LET so == sorted_options(module.options)
           bad == {i \in 1..Len(so) : codegen_all_option_error(so[i]) # NoError}
       IN IF bad = {} THEN NoError
          ELSE codegen_all_option_error(
                 so[CHOOSE i \in bad : \A j \in bad : i <= j])

codegen_all_modules_error(mods) ==
  LET bad == {i \in 1..Len(mods) : codegen_all_module_error(mods[i]) # NoError}
  IN IF bad = {} THEN NoError
     ELSE codegen_all_module_error(
            mods[CHOOSE i \in bad : \A j \in bad : i <= j])

(* the options in the order the global pass visits them *)
RECURSIVE Traversal(_)
Traversal(mods) ==
  IF mods = <<>> THEN <<>>
  ELSE Traversal(SubSeq(mods, 1, Len(mods) - 1))
       \o sorted_options(mods[Len(mods)].options)

(* add_getopt_long that numbers from the length after the append *)
add_getopt_long_off_by_one(long_name, argument_req, getopt_long) ==
  Append(getopt_long,
         [name |-> long_get_option(long_name),
          argument |-> IF argument_req THEN "required" ELSE "no",
          value |-> g_getopt_long_start + Len(getopt_long) + 1])

add_getopt_long(long_name, argument_req, getopt_long) ==
  Append(getopt_long,
         [name |-> long_get_option(long_name),
          argument |-> IF argument_req THEN "required" ELSE "no",
          value |-> g_getopt_long_start + Len(getopt_long)])

(* lines 642-654: the expression that parses the argument *)
handler_call(option) ==
  IF option.handler # ""
  THEN [kind |-> "custom", fn |-> option.handler,
        optionarg |-> option.type # "void"]
  ELSE IF option.mode # None
  THEN [kind |-> "mode", fn |-> option.type, optionarg |-> TRUE]
  ELSE IF option.type # "bool"
  THEN [kind |-> "generic", fn |-> option.type, optionarg |-> TRUE]
  ELSE [kind |-> "none", fn |-> "", optionarg |-> FALSE]

NoLabel == [short |-> <<>>, id |-> 0, long |-> <<>>]

(* lines 670-703: the case block of the option's own spellings *)
own_cases(option, getopt_long) ==
  LET l1 == IF option.short # None
            THEN <<[NoLabel EXCEPT !.short = option.short]>> ELSE <<>>
      l2 == IF option.long # None
            THEN <<[NoLabel EXCEPT !.id = g_getopt_long_start + Len(getopt_long),
                                   !.long = option.long]>>
            ELSE <<>>
      call == IF option.type = "bool" /\ option.name # None
              THEN [fn |-> "assignBool", name |-> option.name, value |-> "true",
                    handler |-> handler_call(option)]
              ELSE IF option.type # "void" /\ option.name # None
              THEN [fn |-> "assign", name |-> option.name, value |-> "optionarg",
                    handler |-> handler_call(option)]
              ELSE IF handler_call(option).kind # "none"
              THEN [fn |-> "handler", name |-> None, value |-> "",
                    handler |-> handler_call(option)]
              ELSE [fn |-> "", name |-> None, value |-> "",
                    handler |-> handler_call(option)]
  IN IF l1 \o l2 = <<>> THEN <<>>
     ELSE <<[labels |-> l1 \o l2, call |-> call]>>

HasAlternate(option) ==
  option.long # None /\ option.type = "bool" /\ option.alternate

(* lines 764-776: the case block of the --no- spelling *)
alternate_cases(option, getopt_long) ==
  IF HasAlternate(option)
  THEN <<[labels |-> <<[NoLabel EXCEPT
                          !.id = g_getopt_long_start + Len(getopt_long),
                          !.long = t_no_dash \o option.long]>>,
          call |-> [fn |-> "assignBool", name |-> option.name,
                    value |-> "false", handler |-> handler_call(option)]]>>
  ELSE <<>>

NoHandler == [kind |-> "none", fn |-> "", optionarg |-> FALSE]

(* one statement of a generated routine *)
Stmt(op, name, fn, arg, handler) ==
  [op |-> op, name |-> name, fn |-> fn, arg |-> arg, handler |-> handler]

(* lines 656-667: the calls of the declared predicates *)
predicate_calls(option) ==
  [i \in 1..Len(option.predicates) |->
     Stmt("predicate", None, option.predicates[i],
          IF option.type = "bool" THEN "value" ELSE "parsedval", NoHandler)]

(* TPL_IMPL_ASSIGN that stores the value before the predicates have run *)
TPL_IMPL_ASSIGN_store_first(name, handler, predicates) ==
  <<Stmt("parse", None, "", "parsedval", handler),
    Stmt("store", name, "", "parsedval", NoHandler)>>
  \o predicates
  \o <<Stmt("flag", name, "", "true", NoHandler)>>

(* the body of Options::assign for one option *)
TPL_IMPL_ASSIGN(name, handler, predicates) ==
  <<Stmt("parse", None, "", "parsedval", handler)>>
  \o predicates
  \o <<Stmt("store", name, "", "parsedval", NoHandler),
       Stmt("flag", name, "", "true", NoHandler)>>

(* the body of Options::assignBool for one option *)
TPL_IMPL_ASSIGN_BOOL(name, predicates) ==
  predicates
  \o <<Stmt("store", name, "", "value", NoHandler),
       Stmt("flag", name, "", "true", NoHandler)>>

SUPPORTED_CTYPES ==
  {"int", "unsigned", "unsigned long", "long", "float", "double"}

(* is_numeric_cpp_type; the second set stands for the types that match     *)
(* u?int[0-9]+_t                                                           *)
is_numeric_cpp_type(ctype) ==
  ctype \in SUPPORTED_CTYPES \/ ctype \in {"int64_t", "uint64_t"}

get_smt_name(option) ==
  IF option.smt_name # None THEN option.smt_name
  ELSE long_get_option(option.long)

(* lines 706-761: the entries for setOption and getOption *)
smt_keys(option) ==
  (IF option.smt_name # None THEN {option.smt_name} ELSE {})
  \cup (IF option.long # None THEN {long_get_option(option.long)} ELSE {})

setoption_handler(option) ==
  IF option.smt_name = None /\ option.long = None THEN <<>>
  ELSE <<[keys |-> smt_keys(option), smtname |-> get_smt_name(option),
          call |->
            IF option.type = "bool"
            THEN [fn |-> "assignBool", name |-> option.name,
                  value |-> "optionarg == true", handler |-> NoHandler]
            ELSE IF ArgumentTypes(option.type) /\ option.name # None
            THEN [fn |-> "assign", name |-> option.name,
                  value |-> "optionarg", handler |-> NoHandler]
            ELSE IF option.handler # ""
            THEN [fn |-> "handler", name |-> None,
                  value |-> IF ArgumentTypes(option.type)
                            THEN "optionarg" ELSE "",
                  handler |-> [kind |-> "custom", fn |-> option.handler,
                               optionarg |-> ArgumentTypes(option.type)]]
            ELSE [fn |-> "", name |-> None, value |-> "",
                  handler |-> NoHandler]]>>

value_to_string(ctype) ==
  IF ctype = "bool" THEN "bool"
  ELSE IF ctype = "std::string" THEN "string"
  ELSE IF is_numeric_cpp_type(ctype) THEN "to_string"
  ELSE "stringstream"

getoption_handler(option) ==
  IF (option.smt_name # None \/ option.long # None) /\ option.name # None
  THEN <<[keys |-> smt_keys(option), name |-> option.name,
          how |-> value_to_string(option.type)]>>
  ELSE <<>>

(* lines 781-801: the names visible to the SMT front end and getOptions *)
smt_optname(option) ==
  IF option.smt_name # None THEN option.smt_name ELSE option.long

options_smt_entries(option) ==
  IF smt_optname(option) = None THEN <<>>
  ELSE IF option.name # None
  THEN <<smt_optname(option), smt_optname(option)>>
  ELSE <<smt_optname(option)>>

options_getoptions_entries(option) ==
  IF option.name # None /\ smt_optname(option) # None
  THEN <<[optname |-> smt_optname(option), name |-> option.name,
          how |-> IF option.type = "bool" THEN "bool"
                  ELSE IF is_numeric_cpp_type(option.type) THEN "to_string"
                  ELSE "stringstream"]>>
  ELSE <<>>

(* lines 804-815: the assign/assignBool routine of a named option *)
custom_handler(option) ==
  IF option.name = None THEN <<>>
  ELSE IF option.type = "bool"
  THEN <<[fn |-> "assignBool", name |-> option.name,
          body |-> TPL_IMPL_ASSIGN_BOOL(option.name, predicate_calls(option))]>>
  ELSE IF option.short # None \/ option.long # None \/ option.smt_name # None
  THEN <<[fn |-> "assign", name |-> option.name,
          body |-> TPL_IMPL_ASSIGN(option.name, handler_call(option),
                                   predicate_calls(option))]>>
  ELSE <<>>

(* one iteration of the loop of lines 634-823 on the lists it extends *)
codegen_all_option(acc, option) ==
  LET argument_req == ArgumentTypes(option.type)
      short1 == IF option.short # None
                THEN acc.getopt_short \o option.short
                     \o (IF argument_req THEN <<CH_COLON>> ELSE <<>>)
                ELSE acc.getopt_short
      handler1 == acc.options_handler \o own_cases(option, acc.getopt_long)
      long1 == IF option.long # None
               THEN add_getopt_long(option.long, argument_req, acc.getopt_long)
               ELSE acc.getopt_long
      handler2 == handler1 \o alternate_cases(option, long1)
      long2 == IF HasAlternate(option)
               THEN add_getopt_long(t_no_dash \o option.long, argument_req, long1)
               ELSE long1
      defaults1 == IF option.name # None
                   THEN acc.defaults \o
                        <<[name |-> option.name, default |-> option.default,
                           enum |-> IF option.mode # None THEN option.type ELSE "",
                           setByUser |-> FALSE]>>
                   ELSE acc.defaults
  IN [getopt_short |-> short1, getopt_long |-> long2,
      options_handler |-> handler2, defaults |-> defaults1,
      options_smt |-> acc.options_smt \o options_smt_entries(option),
      options_getoptions |->
        acc.options_getoptions \o options_getoptions_entries(option),
      custom_handlers |-> acc.custom_handlers \o custom_handler(option),
      setoption_handlers |->
        acc.setoption_handlers \o setoption_handler(option),
      getoption_handlers |->
        acc.getoption_handlers \o getoption_handler(option)]

RECURSIVE codegen_all_lists(_)
codegen_all_lists(trav) ==
  IF trav = <<>>
  THEN [getopt_short |-> <<>>, getopt_long |-> <<>>,
        options_handler |-> <<>>, defaults |-> <<>>,
        options_smt |-> <<>>, options_getoptions |-> <<>>,
        custom_handlers |-> <<>>, setoption_handlers |-> <<>>,
        getoption_handlers |-> <<>>]
  ELSE codegen_all_option(codegen_all_lists(SubSeq(trav, 1, Len(trav) - 1)),
                          trav[Len(trav)])

(* lines 630-640: the help blocks, module by module *)
RECURSIVE help_of_options(_)
help_of_options(options) ==
  IF options = <<>> THEN [common |-> <<>>, others |-> <<>>]
  ELSE LET h == help_of_options(SubSeq(options, 1, Len(options) - 1))
           d == docgen(options[Len(options)])
       IN [common |-> h.common \o d.common, others |-> h.others \o d.others]

FromModule(name) ==
  [opts |-> None,
   text |-> [msg |-> "From the module " \o name, experts |-> FALSE, star |-> FALSE]]

RECURSIVE help_lists(_)
help_lists(mods) ==
  IF mods = <<>> THEN [common |-> <<>>, others |-> <<>>]
  ELSE LET h == help_lists(SubSeq(mods, 1, Len(mods) - 1))
           module == mods[Len(mods)]
           d == help_of_options(sorted_options(module.options))
       IN [common |-> h.common \o d.common,
           others |-> h.others
                      \o (IF module.options # <<>>
                          THEN <<FromModule(module.name)>> ELSE <<>>)
                      \o d.others]

options_holder_content(mods) ==
  [tpl |-> "options_holder_template.h",
   headers_module |-> [i \in 1..Len(mods) |-> mods[i].header],
   macros_module |-> [i \in 1..Len(mods) |-> mods[i].id]]

options_cpp_content(mods) ==
  LET lists == codegen_all_lists(Traversal(mods))
  IN [tpl |-> "options_template.cpp",
      headers_module |-> [i \in 1..Len(mods) |-> mods[i].header],
      custom_handlers |-> lists.custom_handlers,
      module_defaults |-> lists.defaults,
      help_common |-> help_lists(mods).common,
      help_others |-> help_lists(mods).others,
      options_smt |-> lists.options_smt,
      options_getoptions |-> lists.options_getoptions,
      setoption_handlers |-> lists.setoption_handlers,
      getoption_handlers |-> lists.getoption_handlers,
      cmdline_options |-> lists.getopt_long,
      options_short |-> lists.getopt_short,
      options_handler |-> lists.options_handler,
      option_value_begin |-> g_getopt_long_start,
      option_value_end |-> g_getopt_long_start + Len(lists.getopt_long)]

FILE_OPTIONS_HOLDER_H == <<"options_holder", "h">>
FILE_OPTIONS_CPP == <<"options", "cpp">>

codegen_all_modules(mods, dir) ==
  write_file(write_file(dir, FILE_OPTIONS_HOLDER_H, options_holder_content(mods)),
             FILE_OPTIONS_CPP, options_cpp_content(mods))

codegen_all_modules_writes(mods, dir) ==
  LET d1 == write_file(dir, FILE_OPTIONS_HOLDER_H, options_holder_content(mods))
  IN (IF NeedsWrite(dir, FILE_OPTIONS_HOLDER_H, options_holder_content(mods))
      THEN 1 ELSE 0)
     + (IF NeedsWrite(d1, FILE_OPTIONS_CPP, options_cpp_content(mods))
        THEN 1 ELSE 0)

(***************************************************************************)
(* The process: mkoptions_main.                                            *)
(*   argv      the command line: the script name, then the arguments       *)
(*   pc        where mkoptions_main stands                                 *)
(*   error     NoError while running and after exit status 0               *)
(*   modules   the list `modules` of mkoptions_main                        *)
(*   generated number of modules codegen_module has returned for           *)
(*   g_...     the module-level globals of mkoptions.py                    *)
(*   dst       the destination directory: file name -> content             *)
(*   writes    number of files opened for writing by this run              *)
(*   run       1 for the first process, 2 for a re-run on the same input   *)
(*   calls     number of calls of mkoptions_main in this process           *)
(*   dst_before  the destination directory when this run started           *)
(*   grammar   the Grammar object of the API test (test_grammar.py)        *)
(***************************************************************************)
VARIABLES argv, pc, error, modules, generated,
          g_long_to_opt, g_module_id_cache, g_long_cache, g_short_cache,
          g_smt_cache, g_name_cache, g_long_arguments,
          dst, writes, run, calls, dst_before, grammar

globals == <<g_long_to_opt, g_module_id_cache, g_long_cache, g_short_cache,
             g_smt_cache, g_name_cache, g_long_arguments>>
vars == <<argv, pc, error, modules, generated, globals,
          dst, writes, run, calls, dst_before, grammar>>

(* sys.argv[3:] *)
filenames == SubSeq(argv, 4, Len(argv))

(* the body of the loop of lines 1001-1007, from the first option on *)
RECURSIVE main_long_loop(_, _, _)
main_long_loop(filename, options, st) ==
  IF options = <<>> THEN st
  ELSE LET option == Head(options)
           r == check_long(filename, option.long, option.type, st.long_cache)
           name == long_get_option(option.long)
       IN IF r.err # NoError
          THEN [st EXCEPT !.long_cache = r.cache, !.err = r.err]
          ELSE main_long_loop(filename, Tail(options),
                 IF option.long = None THEN st
                 ELSE [long_cache |-> r.cache,
                       long_to_opt |->
                         [v \in DOMAIN st.long_to_opt \cup {name} |->
                            IF v = name THEN option ELSE st.long_to_opt[v]],
                       long_arguments |->
                         IF ArgumentTypes(option.type)
                         THEN st.long_arguments \cup {name}
                         ELSE st.long_arguments,
                       err |-> NoError])

(* sys.exit / uncaught exception *)
Exit(e) ==
  /\ pc' = "exit"
  /\ error' = e

(* lines 968-991: argument count, directories, configuration files *)
main_prelude ==
  /\ pc = "main"
  /\ IF Len(argv) < 5
     THEN Exit(die("missing arguments"))
     ELSE IF \E d \in {2, 3} : argv[d].kind # "dir"
     THEN Exit(die("is not a directory"))
     ELSE IF \E i \in 4..Len(argv) : ~argv[i].exists
     THEN Exit(die("configuration file does not exist"))
     ELSE pc' = "parse" /\ error' = NoError
  /\ UNCHANGED <<argv, modules, generated, globals, dst, writes, run, calls, dst_before, grammar>>

(* lines 995-1008: one iteration of the loop over the file names *)
main_parse ==
  /\ pc = "parse"
  /\ LET tok == filenames[Len(modules) + 1]
         r == parse_module(tok.path, tok.doc)
         st == main_long_loop(tok.path, r.module.options,
                 [long_cache |-> g_long_cache, long_to_opt |-> g_long_to_opt,
                  long_arguments |-> g_long_arguments, err |-> NoError])
     IN IF r.err # NoError
        THEN /\ Exit(r.err)
             /\ UNCHANGED <<modules, g_long_cache, g_long_to_opt, g_long_arguments>>
        ELSE /\ g_long_cache' = st.long_cache
             /\ g_long_to_opt' = st.long_to_opt
             /\ g_long_arguments' = st.long_arguments
             /\ IF st.err # NoError
                THEN Exit(st.err) /\ UNCHANGED modules
                ELSE /\ modules' = Append(modules, r.module)
                     /\ error' = NoError
                     /\ pc' = IF Len(modules) + 1 = Len(filenames)
                              THEN "codegen" ELSE "parse"
  /\ UNCHANGED <<argv, generated, g_module_id_cache, g_short_cache, g_smt_cache,
                 g_name_cache, dst, writes, run, calls, dst_before, grammar>>

(* lines 1011-1012: one call of codegen_module *)
main_codegen_module ==
  /\ pc = "codegen"
  /\ LET module == modules[generated + 1]
         e == codegen_module_error(module)
     IN IF e # NoError
        THEN Exit(e) /\ UNCHANGED <<generated, dst, writes>>
        ELSE /\ dst' = codegen_module(module, dst)
             /\ writes' = writes + codegen_module_writes(module, dst)
             /\ generated' = generated + 1
             /\ error' = NoError
             /\ pc' = IF generated + 1 = Len(modules)
                      THEN "codegen_all" ELSE "codegen"
  /\ UNCHANGED <<argv, modules, globals, run, calls, dst_before, grammar>>

(* line 1015 and the sys.exit(0) of line 1021 *)
main_codegen_all_modules ==
  /\ pc = "codegen_all"
  /\ LET e == codegen_all_modules_error(modules)
     IN IF e # NoError
        THEN Exit(e) /\ UNCHANGED <<dst, writes>>
        ELSE /\ dst' = codegen_all_modules(modules, dst)
             /\ writes' = writes + codegen_all_modules_writes(modules, dst)
             /\ Exit(NoError)
  /\ UNCHANGED <<argv, modules, generated, globals, run, calls, dst_before, grammar>>

(* the generator is started again, as a new process, on the same command   *)
(* line, the same documents and the destination directory it left behind   *)
new_process ==
  /\ pc = "exit"
  /\ run < MaxRuns
  /\ run' = run + 1
  /\ calls' = 1
  /\ pc' = "main"
  /\ error' = NoError
  /\ modules' = <<>>
  /\ generated' = 0
  /\ g_long_to_opt' = <<>>
  /\ g_module_id_cache' = <<>>
  /\ g_long_cache' = <<>>
  /\ g_short_cache' = <<>>
  /\ g_smt_cache' = <<>>
  /\ g_name_cache' = <<>>
  /\ g_long_arguments' = {}
  /\ writes' = 0
  /\ dst_before' = dst
  /\ UNCHANGED <<argv, dst, grammar>>

(* mkoptions_main that is given an empty registry on every call *)
main_again_fresh_registry ==
  /\ pc = "exit"
  /\ error = NoError
  /\ calls < MaxCalls
  /\ calls' = calls + 1
  /\ pc' = "main"
  /\ modules' = <<>>
  /\ generated' = 0
  /\ g_long_to_opt' = <<>>
  /\ g_long_cache' = <<>>
  /\ g_long_arguments' = {}
  /\ writes' = 0
  /\ dst_before' = dst
  /\ UNCHANGED <<argv, error, g_module_id_cache, g_short_cache, g_smt_cache,
                 g_name_cache, dst, run, grammar>>

(* mkoptions_main has returned and is called again in the same process, on *)
(* the same command line: `modules` is a local of the call, the g_...      *)
(* dictionaries are globals of the module and keep what they hold          *)
main_again ==
  /\ pc = "exit"
  /\ error = NoError
  /\ calls < MaxCalls
  /\ calls' = calls + 1
  /\ pc' = "main"
  /\ modules' = <<>>
  /\ generated' = 0
  /\ writes' = 0
  /\ dst_before' = dst
  /\ UNCHANGED <<argv, error, globals, dst, run, grammar>>

Next ==
  \/ main_prelude
  \/ main_parse
  \/ main_codegen_module
  \/ main_codegen_all_modules
  \/ main_again
  \/ new_process

(* solver.mkSygusGrammar(boundVars, [start]) *)
mkSygusGrammar(boundVars, ntSymbols) ==
  [sygusVars |-> boundVars, ntSyms |-> ntSymbols, rules |-> {},
   anyConstant |-> {}, anyVariable |-> {}, isResolved |-> FALSE,
   resolvedAs |-> {},
   last |-> [op |-> "mkSygusGrammar", nt |-> "", rules |-> {},
             wasResolved |-> FALSE],
   raised |-> FALSE]

(* the state of a freshly started first process on command line a *)
Start(a) ==
  /\ grammar = mkSygusGrammar({}, {"start"})
  /\ argv = a
  /\ pc = "main"
  /\ error = NoError
  /\ modules = <<>>
  /\ generated = 0
  /\ g_long_to_opt = <<>>
  /\ g_module_id_cache = <<>>
  /\ g_long_cache = <<>>
  /\ g_short_cache = <<>>
  /\ g_smt_cache = <<>>
  /\ g_name_cache = <<>>
  /\ g_long_arguments = {}
  /\ dst = <<>>
  /\ writes = 0
  /\ run = 1
  /\ calls = 1
  /\ dst_before = <<>>

(***************************************************************************)
(* The Grammar object driven by test/api/python/test_grammar.py.  Terms    *)
(* are named as in the test: start and nts are Boolean variables (only     *)
(* start is a non-terminal of the grammar), x a Boolean bound variable,    *)
(* null the null term.                                                     *)
(***************************************************************************)
Terms == {"start", "nts", "x", "null", "false", "true", "zero"}
SortOf(t) ==
  CASE t = "null" -> "none"
    [] t = "zero" -> "Int"
    [] OTHER -> "Bool"

Contents(g) == <<g.rules, g.anyConstant, g.anyVariable>>

(* a grammar that stays modifiable after synthFun *)
grammar_modifiable_always(g) == TRUE

grammar_modifiable(g) == ~g.isResolved

nt_declared(g, nt) == nt # "null" /\ nt \in g.ntSyms
rule_well_sorted(nt, rule) == rule # "null" /\ SortOf(rule) = SortOf(nt)

(* the grammar after a call: changed by upd when ok, the exception raised  *)
(* otherwise                                                               *)
GrammarCall(op, nt, rules, ok, upd) ==
  /\ grammar' =
       [(IF ok THEN upd ELSE grammar) EXCEPT
          !.last = [op |-> op, nt |-> nt, rules |-> rules,
                    wasResolved |-> grammar.isResolved],
          !.raised = ~ok]
  /\ UNCHANGED <<argv, pc, error, modules, generated, globals,
                 dst, writes, run, calls, dst_before>>

addRule ==
  \E nt \in {"start", "nts", "null"}, rule \in {"false", "true", "zero", "null"} :
    GrammarCall("addRule", nt, {rule},
                /\ grammar_modifiable(grammar)
                /\ nt_declared(grammar, nt)
                /\ rule_well_sorted(nt, rule),
                [grammar EXCEPT !.rules = @ \cup {<<nt, rule>>}])

addRules ==
  \E nt \in {"start", "nts", "null"},
     rules \in {{"false"}, {"false", "true"}, {"zero"}, {"null"}} :
    GrammarCall("addRules", nt, rules,
                /\ grammar_modifiable(grammar)
                /\ nt_declared(grammar, nt)
                /\ \A r \in rules : rule_well_sorted(nt, r),
                [grammar EXCEPT !.rules = @ \cup {<<nt, r>> : r \in rules}])

addAnyConstant ==
  \E nt \in {"start", "nts", "null"} :
    GrammarCall("addAnyConstant", nt, {},
                grammar_modifiable(grammar) /\ nt_declared(grammar, nt),
                [grammar EXCEPT !.anyConstant = @ \cup {nt}])

addAnyVariable ==
  \E nt \in {"start", "nts", "null"} :
    GrammarCall("addAnyVariable", nt, {},
                grammar_modifiable(grammar) /\ nt_declared(grammar, nt),
                [grammar EXCEPT !.anyVariable = @ \cup {nt}])

(* solver.synthFun("f", {}, boolean, g) *)
synthFun ==
  GrammarCall("synthFun", "", {}, TRUE,
              [grammar EXCEPT !.isResolved = TRUE,
                              !.resolvedAs = IF grammar.isResolved THEN @
                                             ELSE {Contents(grammar)}])

NextGrammar ==
  \/ addRule
  \/ addRules
  \/ addAnyConstant
  \/ addAnyVariable
  \/ synthFun

(***************************************************************************)
(* Inputs: command lines and the documents toml.load returns.              *)
(***************************************************************************)
t_a == <<97>>
t_b == <<98>>
t_c == <<99>>
t_d == <<100>>
t_e == <<101>>
t_s == <<115>>
t_x == <<120>>

MODULE_IDS == <<"arith", "bv", "smt", "uf">>
HEADER_STEMS == <<"arith_options", "bv_options", "smt_options", "uf_options">>

ScriptToken == [kind |-> "script", path |-> 0, exists |-> TRUE]
DirToken(n) == [kind |-> "dir", path |-> n, exists |-> TRUE]
TomlToken(i, ex, doc) == [kind |-> "toml", path |-> i, exists |-> ex, doc |-> doc]

(* a module document; the key 'option' is there when [[option]] occurs *)
Doc(id, header, opts) ==
  IF opts = <<>>
  THEN [id |-> id, name |-> id, header |-> header]
  ELSE [id |-> id, name |-> id, header |-> header, option |-> opts]

(* the ways to spread a list of declarations over n documents *)
RECURSIVE SumSeq(_)
SumSeq(c) == IF c = <<>> THEN 0 ELSE Head(c) + SumSeq(Tail(c))
Splits(k, n) == {c \in [1..n -> 0..k] : SumSeq(c) = k}
Distribute(flat, c) ==
  [i \in 1..Len(c) |->
     SubSeq(flat, SumSeq(SubSeq(c, 1, i - 1)) + 1, SumSeq(SubSeq(c, 1, i)))]

(* P holds of some way to declare at most MaxOpts options of S in at most  *)
(* MaxFiles documents                                                      *)
ForSomeOptionLists(S, P(_)) ==
  \E n \in 0..MaxFiles, k \in 0..MaxOpts :
    \E flat \in [1..k -> S], c \in Splits(k, n) : P(Distribute(flat, c))

CmdLine(hasTpl, hasDst, tomls) ==
  <<ScriptToken>> \o (IF hasTpl THEN <<DirToken(1)>> ELSE <<>>)
                  \o (IF hasDst THEN <<DirToken(2)>> ELSE <<>>)
                  \o tomls

(* the complete command line whose i-th document has the i-th id and      *)
(* header and declares the options os[i]                                   *)
StandardCmdLine(os) ==
  CmdLine(TRUE, TRUE,
          [i \in 1..Len(os) |-> TomlToken(i, TRUE,
             Doc(MODULE_IDS[i], <<"options", HEADER_STEMS[i]>>, os[i]))])

StartStandard(os) == Start(StandardCmdLine(os))

(* long spellings: equal base names, negated spellings, equal sort keys *)
LongOptions ==
  {[category |-> "regular", type |-> "bool", help |-> "h",
    name |-> t_a, long |-> t_foo],
   [category |-> "regular", type |-> "bool", help |-> "h",
    name |-> t_b, long |-> t_no_foo, alternate |-> FALSE],
   [category |-> "regular", type |-> "int", help |-> "h",
    name |-> t_c, long |-> t_foo_arg],
   [category |-> "regular", type |-> "bool", help |-> "h",
    name |-> t_d, long |-> t_bar, alternate |-> FALSE],
   [category |-> "regular", type |-> "int", help |-> "h",
    name |-> t_foo]}

InitLong == ForSomeOptionLists(LongOptions, StartStandard)
SpecLong == InitLong /\ [][Next]_vars

(* mode declarations: each of the three invalid shapes, and valid ones *)
t_baz_arg == <<98, 97, 122, 61, 65>>
ModeValues ==
  <<[key |-> "K1", name |-> "k1", help |-> "first"],
    [key |-> "K2", name |-> "k2", help |-> "second"]>>

ModeOptions ==
  {[category |-> "regular", type |-> "Mode", help |-> "h", name |-> t_a,
    long |-> t_foo_arg, mode |-> ModeValues, help_mode |-> "hm",
    default |-> "K1"],
   [category |-> "regular", type |-> "Mode", help |-> "h", name |-> t_b,
    long |-> t_bar_arg, mode |-> ModeValues, help_mode |-> "hm"],
   [category |-> "regular", type |-> "Mode", help |-> "h", name |-> t_c,
    long |-> t_baz_arg, mode |-> ModeValues, default |-> "K2"],
   [category |-> "regular", type |-> "Mode", help |-> "h", name |-> t_c,
    long |-> t_baz_arg, mode |-> ModeValues, help_mode |-> "hm",
    handler |-> "h"],
   [category |-> "regular", type |-> "Mode", help |-> "h", name |-> t_c,
    long |-> t_baz_arg, mode |-> ModeValues, help_mode |-> "hm",
    default |-> "K3"],
   [category |-> "regular", type |-> "int", help |-> "h", name |-> t_c,
    long |-> t_baz_arg, handler |-> "h", default |-> "K3"]}

InitMode == ForSomeOptionLists(ModeOptions, StartStandard)
SpecMode == InitMode /\ [][Next]_vars

(* argument markers, missing display names, options without any identifier *)
MarkerOptions ==
  {[category |-> "regular", type |-> "int", help |-> "h", name |-> t_a,
    long |-> t_foo],
   [category |-> "regular", type |-> "bool", help |-> "h", name |-> t_b,
    long |-> t_bar_arg],
   [category |-> "regular", type |-> "int", help |-> "h", long |-> t_baz],
   [category |-> "regular", type |-> "void", help |-> "h",
    long |-> t_foo_arg, handler |-> "h"],
   [category |-> "regular", type |-> "int", help |-> "h", name |-> t_c,
    long |-> t_bar_arg],
   [category |-> "undocumented", type |-> "bool"]}

InitMarker == ForSomeOptionLists(MarkerOptions, StartStandard)
SpecMarker == InitMarker /\ [][Next]_vars

(* module ids, short spellings, smt names and display names that repeat *)
IdOptions ==
  {[category |-> "regular", type |-> "bool", help |-> "h", name |-> t_a,
    long |-> t_foo, short |-> t_x, smt_name |-> t_s],
   [category |-> "regular", type |-> "bool", help |-> "h", name |-> t_a,
    long |-> t_bar, short |-> t_x, smt_name |-> t_s],
   [category |-> "regular", type |-> "int", help |-> "h", name |-> t_b,
    long |-> t_baz_arg]}

StartIds(os) ==
  \E ids \in [1..Len(os) -> 1..2] :
    Start(CmdLine(TRUE, TRUE,
            [i \in 1..Len(os) |-> TomlToken(i, TRUE,
               Doc(MODULE_IDS[ids[i]], <<"options", HEADER_STEMS[i]>>, os[i]))]))

InitIds == ForSomeOptionLists(IdOptions, StartIds)
SpecIds == InitIds /\ [][Next]_vars

(* header paths: equal file names in different directories, and the file   *)
(* names of the aggregate artifacts                                        *)
HeaderPaths ==
  {<<"options", "arith_options">>, <<"theory", "arith_options">>,
   <<"options", "bv_options">>, <<"options", "options_holder">>}

HeaderOptions ==
  {[category |-> "regular", type |-> "bool", help |-> "h", name |-> t_a,
    long |-> t_foo],
   [category |-> "regular", type |-> "int", help |-> "h", name |-> t_b,
    long |-> t_bar_arg]}

StartHeader(os) ==
  \E hs \in [1..Len(os) -> HeaderPaths] :
    Start(CmdLine(TRUE, TRUE,
            [i \in 1..Len(os) |-> TomlToken(i, TRUE,
               Doc(MODULE_IDS[i], hs[i], os[i]))]))

InitHeader == ForSomeOptionLists(HeaderOptions, StartHeader)
SpecHeader == InitHeader /\ [][Next]_vars

(* categories, labels of the help text and mode values *)
t_extra_arg == <<101, 120, 116, 114, 97, 61, 65, 82, 71>>
t_y == <<121>>
HelpModeValues ==
  <<[key |-> "K1", name |-> "default", help |-> "first"],
    [key |-> "K2", name |-> "k2"]>>

HelpOptions ==
  {[category |-> "common", type |-> "bool", help |-> "h", name |-> t_a,
    long |-> t_foo, short |-> t_x],
   [category |-> "regular", type |-> "int", help |-> "h", name |-> t_b,
    long |-> t_extra_arg, short |-> t_x],
   [category |-> "undocumented", type |-> "bool", name |-> t_c,
    long |-> t_bar, short |-> t_y],
   [category |-> "internal", type |-> "int", help |-> "h", name |-> t_d,
    long |-> t_bar_arg],
   [category |-> "expert", type |-> "Mode", help |-> "h", name |-> t_e,
    long |-> t_baz_arg, mode |-> HelpModeValues, help_mode |-> "hm",
    default |-> "K1"],
   [category |-> "expert", type |-> "Mode", help |-> "h", name |-> t_e,
    long |-> t_baz_arg, mode |-> HelpModeValues, help_mode |-> "hm",
    default |-> "K2"]}

InitHelp == ForSomeOptionLists(HelpOptions, StartStandard)
SpecHelp == InitHelp /\ [][Next]_vars

(* declarations with a missing or unknown attribute, long spellings that  *)
(* repeat, a long spelling with the '--' prefix                            *)
AttrOptions ==
  {[category |-> "regular", type |-> "bool", help |-> "h", name |-> t_a,
    long |-> t_foo],
   [category |-> "regular", type |-> "int", help |-> "h", name |-> t_b,
    long |-> t_foo_arg],
   [category |-> "regular", help |-> "h", name |-> t_c, long |-> t_bar],
   [category |-> "regular", type |-> "bool", help |-> "h", name |-> t_c,
    long |-> t_bar, bogus |-> "v"],
   [category |-> "regular", type |-> "bool", help |-> "h", name |-> t_d,
    long |-> t_dd_foo],
   [category |-> "regular", type |-> "bool", help |-> "h", name |-> t_d,
    long |-> t_bar, alternate |-> FALSE]}

InitAttr == ForSomeOptionLists(AttrOptions, StartStandard)
SpecAttr == InitAttr /\ [][Next]_vars

(* options with predicates, a custom handler, a mode, without display     *)
(* name, without any spelling                                              *)
DispatchOptions ==
  {[category |-> "regular", type |-> "bool", help |-> "h", name |-> t_a,
    long |-> t_foo, short |-> t_x, predicates |-> <<"p1", "p2">>],
   [category |-> "regular", type |-> "int", help |-> "h", name |-> t_b,
    long |-> t_bar_arg, predicates |-> <<"p1">>],
   [category |-> "regular", type |-> "int", help |-> "h", name |-> t_c,
    long |-> t_baz_arg, handler |-> "h"],
   [category |-> "regular", type |-> "Mode", help |-> "h", name |-> t_d,
    long |-> t_baz_arg, mode |-> ModeValues, help_mode |-> "hm"],
   [category |-> "regular", type |-> "bool", help |-> "h", long |-> t_bar],
   [category |-> "regular", type |-> "int", help |-> "h", name |-> t_e]}

InitDispatch == ForSomeOptionLists(DispatchOptions, StartStandard)
SpecDispatch == InitDispatch /\ [][Next]_vars

(* the grammars of the test: with and without a bound variable *)
InitGrammar ==
  /\ argv = <<ScriptToken>>
  /\ pc = "main"
  /\ error = NoError
  /\ modules = <<>>
  /\ generated = 0
  /\ g_long_to_opt = <<>>
  /\ g_module_id_cache = <<>>
  /\ g_long_cache = <<>>
  /\ g_short_cache = <<>>
  /\ g_smt_cache = <<>>
  /\ g_name_cache = <<>>
  /\ g_long_arguments = {}
  /\ dst = <<>>
  /\ writes = 0
  /\ run = 1
  /\ calls = 1
  /\ dst_before = <<>>
  /\ \E boundVars \in {{}, {"x"}} :
       grammar = mkSygusGrammar(boundVars, {"start"})
SpecGrammar == InitGrammar /\ [][NextGrammar]_vars

(* command lines with and without the two directories, with any number of  *)
(* configuration files, existing or not                                    *)
StartArgs(os) ==
  \E ex \in [1..Len(os) -> BOOLEAN], hasTpl \in BOOLEAN, hasDst \in BOOLEAN :
    Start(CmdLine(hasTpl, hasDst,
            [i \in 1..Len(os) |-> TomlToken(i, ex[i],
               Doc(MODULE_IDS[i], <<"options", HEADER_STEMS[i]>>, os[i]))]))

Init == ForSomeOptionLists(HeaderOptions, StartArgs)
Spec == Init /\ [][Next]_vars

(***************************************************************************)
(* Vocabulary of the properties: the declarations on the command line,     *)
(* read off the documents and independent of what the process did to them. *)
(***************************************************************************)
Files == 1..Len(filenames)
DeclaredIn(i) ==
  IF "option" \in DOMAIN filenames[i].doc THEN filenames[i].doc.option ELSE <<>>
Positions == UNION {{<<i, j>> : j \in 1..Len(DeclaredIn(i))} : i \in Files}
Decl(p) == Option(DeclaredIn(p[1])[p[2]], filenames[p[1]].path)
DeclBase(p) == long_get_option(Decl(p).long)
Before(p, q) == p[1] < q[1] \/ (p[1] = q[1] /\ p[2] < q[2])

Succeeded == pc = "exit" /\ error = NoError
Failed == pc = "exit" /\ error # NoError
PastLoading == pc \in {"codegen", "codegen_all"} \/ Succeeded
FailedLoading == Failed /\ Len(argv) >= 5 /\ Len(modules) < Len(filenames)

(***************************************************************************)
(* C1: when the run fails on a validation failure, no artifact has been    *)
(* written or changed in the output directory: the directory is as the     *)
(* process found it.                                                       *)
(***************************************************************************)
C1_NoArtifactOnFailure ==
  Failed => (writes = 0 /\ dst = dst_before)

(***************************************************************************)
(* C2: a run in which two options have long spellings with the same base   *)
(* name, or in which an option declares 'no-X' while a boolean option with *)
(* alternate enabled has long spelling X (in either order), fails: it      *)
(* never gets past loading.                                                *)
(***************************************************************************)
C2_LongSpellingsUnique ==
  PastLoading =>
    \A p \in Positions, q \in Positions :
      (p # q /\ Decl(p).long # None /\ Decl(q).long # None) =>
        /\ DeclBase(p) # DeclBase(q)
        /\ (Decl(p).type = "bool" /\ Decl(p).alternate)
             => DeclBase(q) # t_no_dash \o DeclBase(p)

(* the negated spelling is declared first, the boolean option after it *)
C2_Witness ==
  /\ FailedLoading
  /\ Cardinality(Positions) = 2
  /\ \E p \in Positions, q \in Positions :
       /\ Before(p, q)
       /\ Decl(q).type = "bool" /\ Decl(q).alternate /\ Decl(q).long # None
       /\ Decl(p).long # None
       /\ DeclBase(p) = t_no_dash \o DeclBase(q)

(***************************************************************************)
(* C3: a run in which two modules have the same identifier, or two options *)
(* the same short spelling, smt name or display name, fails.               *)
(***************************************************************************)
C3_OtherNamespacesUnique ==
  Succeeded =>
    /\ \A i \in Files, j \in Files :
         i # j => filenames[i].doc.id # filenames[j].doc.id
    /\ \A p \in Positions, q \in Positions :
         p # q =>
           /\ Decl(p).short # None => Decl(p).short # Decl(q).short
           /\ Decl(p).smt_name # None => Decl(p).smt_name # Decl(q).smt_name
           /\ Decl(p).name # None => Decl(p).name # Decl(q).name

(***************************************************************************)
(* C4: in a successful run the command-line IDs of the long-spelling table *)
(* are 256, 257, ... without gap or reuse; one entry per option with a     *)
(* long spelling plus one for the negated spelling of each boolean option  *)
(* with a long spelling and alternate enabled, none for options without a  *)
(* long spelling; IDs grow along the traversal (modules in supplied order, *)
(* options of a module by ascending sort key).                             *)
(***************************************************************************)
OptionsCpp == dst[FILE_OPTIONS_CPP]
WithLong == {p \in Positions : Decl(p).long # None}
WithNegation ==
  {p \in WithLong : Decl(p).type = "bool" /\ Decl(p).alternate}
TableIndex(name) ==
  CHOOSE i \in 1..Len(OptionsCpp.cmdline_options) :
    OptionsCpp.cmdline_options[i].name = name
TraversedBefore(p, q) ==
  \/ p[1] < q[1]
  \/ p[1] = q[1] /\ StrLess(Decl(p).long, Decl(q).long)

C4_IdsContiguous ==
  Succeeded =>
    LET g == OptionsCpp.cmdline_options
    IN /\ \A i \in 1..Len(g) : g[i].value = 256 + (i - 1)
       /\ Len(g) = Cardinality(WithLong) + Cardinality(WithNegation)
       /\ OptionsCpp.option_value_begin = 256
       /\ OptionsCpp.option_value_end = 256 + Len(g)
       /\ \A p \in WithLong : \E i \in 1..Len(g) : g[i].name = DeclBase(p)
       /\ \A p \in WithNegation :
            /\ TableIndex(DeclBase(p)) < Len(g)
            /\ g[TableIndex(DeclBase(p)) + 1].name = t_no_dash \o DeclBase(p)
       /\ \A p \in WithLong, q \in WithLong :
            TraversedBefore(p, q) =>
              g[TableIndex(DeclBase(p))].value < g[TableIndex(DeclBase(q))].value

(* both modules contribute entries, one option has a negated spelling and  *)
(* one option has no long spelling                                         *)
C4_Witness ==
  /\ Succeeded
  /\ WithNegation # {}
  /\ \E p \in Positions : Decl(p).long = None
  /\ \E p \in WithLong, q \in WithLong : p[1] # q[1]
  /\ Len(OptionsCpp.cmdline_options) >= 3

(***************************************************************************)
(* C5, as stated: whatever the order of the option declarations inside a   *)
(* module, the per-module pass and the global pass emit that module's      *)
(* options in one and the same order, so the artifacts do not depend on    *)
(* the declaration order.                                                  *)
(***************************************************************************)
Perms(n) == {f \in [1..n -> 1..n] : \A i \in 1..n, j \in 1..n : f[i] = f[j] => i = j}
Permute(s, f) == [i \in 1..Len(s) |-> s[f[i]]]
ModuleH(i) == dst[<<header_filename(modules[i].header), "h">>]
SameArtifactsWhenPermuted(i, f) ==
  LET pm == [modules[i] EXCEPT !.options = Permute(modules[i].options, f)]
  IN /\ module_h_content(pm) = ModuleH(i)
     /\ options_cpp_content([modules EXCEPT ![i] = pm]) = OptionsCpp

C5_AnyPermutationSameOrder ==
  Succeeded =>
    \A i \in 1..Len(modules) :
      \A f \in Perms(Len(modules[i].options)) : SameArtifactsWhenPermuted(i, f)

(***************************************************************************)
(* C5, amended: both passes emit a module's options ascending by sort key  *)
(* (long spelling if present, else display name), the per-module pass      *)
(* leaving out the options without display name; when the sort keys of the *)
(* module are pairwise distinct the emitted order is the same for every    *)
(* permutation of the declarations ('bar' before 'foo'); options with      *)
(* equal keys are emitted in declaration order.                            *)
(***************************************************************************)
Ascending(s) ==
  \A a \in 1..Len(s), b \in 1..Len(s) :
    a < b => ~StrLess(OptionKey(s[b]), OptionKey(s[a]))
KeysDistinct(s) ==
  \A a \in 1..Len(s), b \in 1..Len(s) :
    a # b => OptionKey(s[a]) # OptionKey(s[b])
DeclaredOrderOnTies(s, ops) ==
  \A a \in 1..Len(s), b \in 1..Len(s) :
    (a < b /\ OptionKey(s[a]) = OptionKey(s[b]) /\ s[a] # s[b]) =>
      \E x \in 1..Len(ops), y \in 1..Len(ops) :
        x < y /\ ops[x] = s[a] /\ ops[y] = s[b]

C5_EmissionOrder ==
  Succeeded =>
    \A i \in 1..Len(modules) :
      LET ops == modules[i].options
          so == sorted_options(ops)
          named == SelectSeq(so, IsNamed)
      IN /\ \E f \in Perms(Len(ops)) : so = Permute(ops, f)
         /\ Ascending(so)
         /\ DeclaredOrderOnTies(so, ops)
         /\ ModuleH(i).decls = [k \in 1..Len(named) |-> render_h(named[k])]
         /\ KeysDistinct(ops) =>
              \A f \in Perms(Len(ops)) : SameArtifactsWhenPermuted(i, f)

(* 'foo' is declared before 'bar' in one module *)
C5_Witness ==
  /\ Succeeded
  /\ \E i \in 1..Len(modules) :
       /\ Len(modules[i].options) = 2
       /\ modules[i].options[1].long = t_foo
       /\ modules[i].options[2].long = t_bar
       /\ ModuleH(i).decls[1].long_name = t_bar

(***************************************************************************)
(* C6: when the generator is run again on unchanged input, the second run  *)
(* opens no file for writing and leaves the artifacts as the first run     *)
(* left them.                                                              *)
(***************************************************************************)
C6_SecondRunWritesNothing ==
  (run = 2 /\ pc = "exit") => (writes = 0 /\ dst = dst_before)

(***************************************************************************)
(* C7: a command line with a template directory, an output directory and   *)
(* at least one specification document is not rejected for missing         *)
(* arguments; a command line lacking one of the three exits non-zero.      *)
(***************************************************************************)
CompleteCommandLine ==
  /\ Len(argv) >= 4
  /\ argv[2].kind = "dir"
  /\ argv[3].kind = "dir"
  /\ argv[4].kind = "toml"
  /\ \A i \in 4..Len(argv) : argv[i].exists

C7_RequiredArguments ==
  pc = "exit" =>
    /\ CompleteCommandLine => error # die("missing arguments")
    /\ ~CompleteCommandLine => error # NoError

(***************************************************************************)
(* C8: every option with a long spelling in a run that does not fail has   *)
(* an '=' marker exactly when its type takes an argument (is neither bool  *)
(* nor void), whether or not the option has a display name.                *)
(***************************************************************************)
C8_ArgumentMarker ==
  Succeeded =>
    \A p \in WithLong :
      (Decl(p).type \notin {"bool", "void"}) <=> Contains(Decl(p).long, CH_EQ)

(***************************************************************************)
(* C9: an option without display name, smt name, short and long spelling   *)
(* is rejected while the documents are loaded: code generation never       *)
(* starts and nothing is written in a run that declares one.               *)
(***************************************************************************)
HasIdentifier(o) ==
  o.name # None \/ o.smt_name # None \/ o.short # None \/ o.long # None

C9_NoIdentifierRejectedAtLoading ==
  (PastLoading \/ writes > 0) => \A p \in Positions : HasIdentifier(Decl(p))

(***************************************************************************)
(* C10: loading rejects a mode mapping without help_mode, a mode mapping   *)
(* with a custom handler and a mode option whose default is not one of the *)
(* mode's keys; none of the three diagnostics is raised for a document     *)
(* whose options have no such defect.                                      *)
(***************************************************************************)
ModeWithoutHelp(o) == o.mode # None /\ o.help_mode = ""
ModeWithHandler(o) == o.mode # None /\ o.handler # ""
ModeBadDefault(o) ==
  /\ o.mode # None
  /\ o.default # ""
  /\ \A k \in 1..Len(o.mode) : o.mode[k].key # o.default
InFailingFile(P(_)) ==
  \E p \in Positions : p[1] = Len(modules) + 1 /\ P(Decl(p))

C10_ModeValidation ==
  /\ PastLoading =>
       \A p \in Positions :
         ~ModeWithoutHelp(Decl(p)) /\ ~ModeWithHandler(Decl(p))
           /\ ~ModeBadDefault(Decl(p))
  /\ (Failed /\ error.msg = "defines modes but no help_mode")
       => InFailingFile(ModeWithoutHelp)
  /\ (Failed /\ error.msg = "defines modes and a handler")
       => InFailingFile(ModeWithHandler)
  /\ (Failed /\ error.msg = "invalid default value")
       => InFailingFile(ModeBadDefault)

(* the first document's mode option with a default among its keys was      *)
(* accepted, the second document's default is rejected                     *)
C10_Witness ==
  /\ FailedLoading
  /\ error = die("invalid default value")
  /\ Len(modules) = 1
  /\ \E j \in 1..Len(modules[1].options) :
       /\ modules[1].options[j].mode # None
       /\ modules[1].options[j].default = "K1"

(***************************************************************************)
(* C11: an option declaration whose category is not one of common, expert, *)
(* regular, undocumented is rejected: every option of a loaded module has  *)
(* a category in that set.                                                 *)
(***************************************************************************)
C11_CategoryValidated ==
  \A i \in 1..Len(modules) : \A j \in 1..Len(modules[i].options) :
    modules[i].options[j].category \in CATEGORY_VALUES

(***************************************************************************)
(* C12, as stated: the help label of an option with short spelling "x" and *)
(* long spelling "extra=ARG" is exactly `-x ARG | --extra=ARG`: for an     *)
(* option with both spellings the short form (followed by the argument     *)
(* name when the long spelling carries one) comes first and the long form  *)
(* second, joined by ' | '.                                                *)
(***************************************************************************)
HelpEntries == OptionsCpp.help_common \o OptionsCpp.help_others
Labels == {HelpEntries[i].opts : i \in 1..Len(HelpEntries)}
Documented == {p \in WithLong : Decl(p).category # "undocumented"}
ArgName(long) ==
  IF Contains(long, CH_EQ)
  THEN SubSeq(long, Len(long_get_option(long)) + 2, Len(long))
  ELSE <<>>
ShortForm(p) ==
  <<CH_DASH>> \o Decl(p).short
  \o (IF ArgName(Decl(p).long) # <<>>
      THEN <<CH_SPACE>> \o ArgName(Decl(p).long) ELSE <<>>)
LongForm(p) == <<CH_DASH, CH_DASH>> \o Decl(p).long
Bar == <<CH_SPACE, CH_BAR, CH_SPACE>>
(* -x ARG | --extra=ARG *)
t_label_short_first ==
  <<45, 120, 32, 65, 82, 71, 32, 124, 32,
    45, 45, 101, 120, 116, 114, 97, 61, 65, 82, 71>>
(* --extra=ARG | -x ARG *)
t_label_long_first ==
  <<45, 45, 101, 120, 116, 114, 97, 61, 65, 82, 71, 32, 124, 32,
    45, 120, 32, 65, 82, 71>>

C12_ShortFormFirst ==
  Succeeded =>
    \A p \in Documented :
      /\ Decl(p).short # None => (ShortForm(p) \o Bar \o LongForm(p)) \in Labels
      /\ (Decl(p).short = t_x /\ Decl(p).long = t_extra_arg)
           => t_label_short_first \in Labels

(***************************************************************************)
(* C12, amended: the help label of an option with short spelling "x" and   *)
(* long spelling "extra=ARG" is exactly `--extra=ARG | -x ARG`: for an     *)
(* option with both spellings the long form comes first and the short form *)
(* (followed by the argument name when the long spelling carries one)      *)
(* second, joined by ' | '; an option with only a long spelling is         *)
(* labelled by the long form alone.                                        *)
(***************************************************************************)
C12_LongFormFirst ==
  Succeeded =>
    /\ \A p \in Documented :
         /\ Decl(p).short # None
              => (LongForm(p) \o Bar \o ShortForm(p)) \in Labels
         /\ Decl(p).short = None => LongForm(p) \in Labels
         /\ (Decl(p).short = t_x /\ Decl(p).long = t_extra_arg)
              => t_label_long_first \in Labels
    /\ \A l \in Labels :
         l # None =>
           \E p \in Documented :
             l = IF Decl(p).short # None
                 THEN LongForm(p) \o Bar \o ShortForm(p) ELSE LongForm(p)

(* the help text has the label of the spec's example and a label without   *)
(* argument name                                                           *)
C12_Witness ==
  /\ Succeeded
  /\ t_label_long_first \in Labels
  /\ \E p \in Documented :
       Decl(p).short # None /\ ArgName(Decl(p).long) = <<>>

(***************************************************************************)
(* C13: when a uniqueness check finds a value that is already registered,  *)
(* or an attribute check finds an unknown or a missing required attribute, *)
(* the run ends with the generator's own diagnostic; the failure is never  *)
(* an unhandled internal fault of the reporting routine itself.            *)
(***************************************************************************)
BadAttributes(d) ==
  \/ \E k \in OPTION_ATTR_REQ : k \notin DOMAIN d
  \/ \E k \in DOMAIN d : k \notin OPTION_ATTR_ALL
FailingFileHasBadAttributes ==
  \E p \in Positions :
    p[1] = Len(modules) + 1 /\ BadAttributes(DeclaredIn(p[1])[p[2]])

C13_OwnDiagnostic ==
  /\ Failed => error # fault("UnboundLocalError")
  /\ (FailedLoading /\ FailingFileHasBadAttributes) => error.kind = "die"

(***************************************************************************)
(* C14, as stated: uniqueness state does not survive a generation run: a   *)
(* second generation run in the same process, over the specification set   *)
(* the first run has finished on, also succeeds.                           *)
(***************************************************************************)
C14_SecondRunSucceeds ==
  (calls = 2 /\ pc = "exit") => Succeeded

(***************************************************************************)
(* C14, amended: uniqueness state is a global of the process and survives  *)
(* a generation run.  It starts empty in every process; after a run has    *)
(* finished it holds every long spelling the run reserved, so a second     *)
(* generation run in the same process over the same specification set      *)
(* fails, while loading the first document that declares a long spelling,  *)
(* and succeeds only when no option has a long spelling.  A run in a new   *)
(* process starts from an empty registry.                                  *)
(***************************************************************************)
Reserved(p) ==
  {DeclBase(p)} \cup
  (IF Decl(p).type = "bool" THEN {t_no_dash \o DeclBase(p)} ELSE {})
FilesWithLong == {p[1] : p \in WithLong}

C14_RegistrySurvives ==
  /\ (calls = 1 /\ pc = "main") => g_long_cache = <<>>
  /\ (calls >= 2 /\ pc = "main")
       => DOMAIN g_long_cache = UNION {Reserved(p) : p \in WithLong}
  /\ (calls >= 2 /\ PastLoading) => WithLong = {}
  /\ (calls >= 2 /\ pc = "exit" /\ WithLong # {})
       => /\ Failed
          /\ \A i \in FilesWithLong : Len(modules) + 1 <= i
          /\ Len(modules) + 1 \in FilesWithLong

(* the second run in the same process has failed on the second document;   *)
(* the first document has no long spelling                                 *)
C14_Witness ==
  /\ calls = 2
  /\ Failed
  /\ Len(modules) = 1
  /\ WithLong # {}

(***************************************************************************)
(* C15: an option of category undocumented contributes no entry to either  *)
(* help block, yet it receives everything else an option of another        *)
(* category with the same attributes receives: its long-spelling table     *)
(* entries and IDs, its short-spelling entry, its dispatch cases and its   *)
(* named set/get entries.  Options of category common contribute only to   *)
(* the common block, options of every other documented category only to    *)
(* the other block.                                                        *)
(***************************************************************************)
LabelOf(p) ==
  IF Decl(p).short # None
  THEN LongForm(p) \o Bar \o ShortForm(p) ELSE LongForm(p)
CommonLabels ==
  {OptionsCpp.help_common[i].opts : i \in 1..Len(OptionsCpp.help_common)}
OtherLabels ==
  {OptionsCpp.help_others[i].opts : i \in 1..Len(OptionsCpp.help_others)}
Recategorised(mods) ==
  [i \in 1..Len(mods) |->
     [mods[i] EXCEPT !.options =
        [j \in 1..Len(mods[i].options) |->
           [mods[i].options[j] EXCEPT !.category = "regular"]]]]
NonHelp(c) ==
  <<c.headers_module, c.custom_handlers, c.module_defaults,
    c.cmdline_options, c.options_short, c.options_handler,
    c.option_value_begin, c.option_value_end, c.options_smt,
    c.options_getoptions, c.setoption_handlers, c.getoption_handlers>>
CaseLabels ==
  UNION {{OptionsCpp.options_handler[i].labels[k] :
            k \in 1..Len(OptionsCpp.options_handler[i].labels)} :
         i \in 1..Len(OptionsCpp.options_handler)}
TableNames ==
  {OptionsCpp.cmdline_options[i].name :
     i \in 1..Len(OptionsCpp.cmdline_options)}
Undocumented == {p \in WithLong : Decl(p).category = "undocumented"}

C15_UndocumentedOnlySkipsHelp ==
  Succeeded =>
    /\ \A p \in WithLong :
         /\ LabelOf(p) \in CommonLabels <=> Decl(p).category = "common"
         /\ LabelOf(p) \in OtherLabels
              <=> Decl(p).category \notin {"common", "undocumented"}
    /\ Len(OptionsCpp.help_common)
         = Cardinality({p \in WithLong : Decl(p).category = "common"})
    /\ Len(OptionsCpp.help_others)
         = Cardinality({p \in WithLong :
                          Decl(p).category \notin {"common", "undocumented"}})
           + Cardinality({i \in Files : DeclaredIn(i) # <<>>})
    /\ NonHelp(OptionsCpp) = NonHelp(options_cpp_content(Recategorised(modules)))
    /\ \A p \in Undocumented :
         /\ DeclBase(p) \in TableNames
         /\ (Decl(p).type = "bool" /\ Decl(p).alternate)
              => (t_no_dash \o DeclBase(p)) \in TableNames
         /\ \E l \in CaseLabels : l.long = Decl(p).long /\ l.id >= 256
         /\ Decl(p).short # None
              => /\ \E l \in CaseLabels : l.short = Decl(p).short
                 /\ \E i \in 1..Len(OptionsCpp.options_short) :
                      <<OptionsCpp.options_short[i]>> = Decl(p).short
         /\ \E i \in 1..Len(OptionsCpp.setoption_handlers) :
              DeclBase(p) \in OptionsCpp.setoption_handlers[i].keys
         /\ Decl(p).name # None
              => \E i \in 1..Len(OptionsCpp.getoption_handlers) :
                   /\ DeclBase(p) \in OptionsCpp.getoption_handlers[i].keys
                   /\ OptionsCpp.getoption_handlers[i].name = Decl(p).name

(* an undocumented option with both spellings next to a common and an      *)
(* expert option                                                           *)
C15_Witness ==
  /\ Succeeded
  /\ \E p \in Undocumented : Decl(p).short # None
  /\ \E p \in WithLong : Decl(p).category = "common"
  /\ \E p \in WithLong : Decl(p).category = "expert"

(***************************************************************************)
(* C16, as stated: in the generated help text (the common and the other    *)
(* block) the entry of a mode option additionally enumerates every mode    *)
(* value's display name, marking the default value, together with that     *)
(* value's help text: a mode option's help entry depends on the display    *)
(* names of its mode values.                                               *)
(***************************************************************************)
ModePositions ==
  {q \in UNION {{<<i, j>> : j \in 1..Len(modules[i].options)} :
                i \in 1..Len(modules)} :
     modules[q[1]].options[q[2]].mode # None}
ModeOption(q) == modules[q[1]].options[q[2]]
WithoutModeNames(q) ==
  [modules EXCEPT ![q[1]].options[q[2]].mode =
     [k \in 1..Len(ModeOption(q).mode) |->
        [key |-> ModeOption(q).mode[k].key, name |-> ""]]]

C16_HelpBlocksEnumerateModes ==
  Succeeded =>
    \A q \in ModePositions :
      help_lists(WithoutModeNames(q))
        # [common |-> OptionsCpp.help_common, others |-> OptionsCpp.help_others]

(***************************************************************************)
(* C16, amended: the entry of a mode option in the common and the other    *)
(* help block is built like every other entry, from the option's label and *)
(* help text only.  Every mode value's display name, marked as the default *)
(* when its key is the option's default and its display name is not        *)
(* "default", together with that value's help text when it has one, is     *)
(* enumerated in the help text that the generated string-to-mode parser of *)
(* the option's module prints for the argument "help".                     *)
(***************************************************************************)
ModuleCpp(i) == dst[<<header_filename(modules[i].header), "cpp">>]
ParserHelp(q) ==
  LET defs == ModuleCpp(q[1]).defs
  IN defs[CHOOSE k \in 1..Len(defs) : defs[k].name = ModeOption(q).name].help

C16_ModesInParserHelp ==
  Succeeded =>
    \A q \in ModePositions :
      /\ help_lists(WithoutModeNames(q))
           = [common |-> OptionsCpp.help_common, others |-> OptionsCpp.help_others]
      /\ LET o == ModeOption(q)
             h == ParserHelp(q)
         IN /\ h.help_mode = o.help_mode
            /\ h.long = long_get_option(o.long)
            /\ Len(h.values) = Len(o.mode)
            /\ \A k \in 1..Len(o.mode) :
                 /\ h.values[k].name = o.mode[k].name
                 /\ h.values[k].is_default
                      <=> (o.mode[k].key = o.default /\ o.mode[k].name # "default")
                 /\ h.values[k].help =
                      IF "help" \in DOMAIN o.mode[k]
                      THEN <<o.mode[k].help>> ELSE <<>>

(* the default of the mode option is the value named "k2", which has no    *)
(* help text                                                               *)
C16_Witness ==
  /\ Succeeded
  /\ \E q \in ModePositions :
       /\ ModeOption(q).default = "K2"
       /\ ParserHelp(q).values[2].is_default
       /\ ~ParserHelp(q).values[1].is_default

(***************************************************************************)
(* C18: in the generated assignment routine of every named option the      *)
(* steps run in this order: for an argument-taking option the value is     *)
(* parsed (custom handler, mode-string parser or generic typed parser),    *)
(* then every declared predicate is called on the parsed value, then the   *)
(* value is stored in the holder, then the set-by-user flag is set; for a  *)
(* boolean option the predicates run on the given value before it is       *)
(* stored and the flag is set.  The flag starts false and becomes true     *)
(* only after the parse and all predicates have completed; a failing parse *)
(* or predicate leaves the held value and the flag unchanged.              *)
(***************************************************************************)
Routines == OptionsCpp.custom_handlers
HolderBefore == [value |-> "held", flag |-> FALSE, parsedval |-> "none"]

(* the holder after the routine ran; statement failAt throws (0: none) *)
RECURSIVE Run(_, _, _, _)
Run(body, k, failAt, h) ==
  IF k > Len(body) \/ k = failAt THEN h
  ELSE Run(body, k + 1, failAt,
           CASE body[k].op = "parse" -> [h EXCEPT !.parsedval = "parsed"]
             [] body[k].op = "store" ->
                  [h EXCEPT !.value = IF body[k].arg = "parsedval"
                                      THEN h.parsedval ELSE "given"]
             [] body[k].op = "flag" -> [h EXCEPT !.flag = TRUE]
             [] OTHER -> h)

MayThrow(st) == st.op \in {"parse", "predicate"}
ParserOf(o) ==
  IF o.handler # "" THEN "custom"
  ELSE IF o.mode # None THEN "mode" ELSE "generic"
HasRoutine(o) ==
  /\ o.name # None
  /\ o.type = "bool" \/ o.short # None \/ o.long # None \/ o.smt_name # None

C18_AssignOrder ==
  Succeeded =>
    /\ \A p \in Positions :
         HasRoutine(Decl(p)) =>
           \E i \in 1..Len(Routines) :
             LET r == Routines[i]
                 o == Decl(p)
                 first == IF o.type = "bool" THEN 0 ELSE 1
                 n == Len(o.predicates)
             IN /\ r.name = o.name
                /\ r.fn = IF o.type = "bool" THEN "assignBool" ELSE "assign"
                /\ Len(r.body) = first + n + 2
                /\ o.type # "bool" =>
                     /\ r.body[1].op = "parse"
                     /\ r.body[1].handler.kind = ParserOf(o)
                /\ \A k \in 1..n :
                     /\ r.body[first + k].op = "predicate"
                     /\ r.body[first + k].fn = o.predicates[k]
                     /\ r.body[first + k].arg =
                          IF o.type = "bool" THEN "value" ELSE "parsedval"
                /\ r.body[first + n + 1].op = "store"
                /\ r.body[first + n + 1].name = o.name
                /\ r.body[first + n + 2].op = "flag"
                /\ r.body[first + n + 2].name = o.name
    /\ \A i \in 1..Len(Routines) :
         LET body == Routines[i].body
         IN /\ Run(body, 1, 0, HolderBefore).flag
            /\ Run(body, 1, 0, HolderBefore).value =
                 IF Routines[i].fn = "assign" THEN "parsed" ELSE "given"
            /\ \A f \in 1..Len(body) :
                 MayThrow(body[f]) =>
                   /\ Run(body, 1, f, HolderBefore).value = "held"
                   /\ ~Run(body, 1, f, HolderBefore).flag
            /\ \E j \in 1..Len(OptionsCpp.module_defaults) :
                 /\ OptionsCpp.module_defaults[j].name = Routines[i].name
                 /\ ~OptionsCpp.module_defaults[j].setByUser

(* routines of a boolean option with two predicates and of an option with  *)
(* a generic parser and one predicate                                      *)
C18_Witness ==
  /\ Succeeded
  /\ \E i \in 1..Len(Routines) :
       Routines[i].fn = "assignBool" /\ Len(Routines[i].body) = 4
  /\ \E i \in 1..Len(Routines) :
       /\ Routines[i].fn = "assign"
       /\ Len(Routines[i].body) = 4
       /\ Routines[i].body[1].handler.kind = "generic"

(***************************************************************************)
(* C19: in every successful run each long-spelling entry of the table and  *)
(* the dispatch case generated for the same spelling carry the same ID,    *)
(* every table ID in [256, 256 + number of entries) labels exactly one     *)
(* dispatch case, and the case of a boolean option's own spelling assigns  *)
(* true while the case of its negated spelling has the next ID and assigns *)
(* false to the same option.                                               *)
(***************************************************************************)
Cases == OptionsCpp.options_handler
CasesWithId(id) ==
  {<<i, k>> \in (1..Len(Cases)) \X (1..2) :
     k <= Len(Cases[i].labels) /\ Cases[i].labels[k].id = id}
CaseOf(long) ==
  CHOOSE i \in 1..Len(Cases) :
    \E k \in 1..Len(Cases[i].labels) : Cases[i].labels[k].long = long
IdOf(long) ==
  LET c == Cases[CaseOf(long)]
  IN c.labels[CHOOSE k \in 1..Len(c.labels) : c.labels[k].long = long].id

C19_TableAndCasesAgree ==
  Succeeded =>
    LET g == OptionsCpp.cmdline_options
    IN /\ \A i \in 1..Len(g) :
            /\ Cardinality(CasesWithId(g[i].value)) = 1
            /\ \A c \in CasesWithId(g[i].value) :
                 long_get_option(Cases[c[1]].labels[c[2]].long) = g[i].name
       /\ \A p \in WithLong :
            Decl(p).type = "bool" =>
              LET own == Cases[CaseOf(Decl(p).long)].call
              IN /\ own.fn = "assignBool"
                 /\ own.value = "true"
                 /\ own.name # None
                 /\ Decl(p).alternate =>
                      LET neg == t_no_dash \o Decl(p).long
                      IN /\ IdOf(neg) = IdOf(Decl(p).long) + 1
                         /\ Cases[CaseOf(neg)].call.fn = "assignBool"
                         /\ Cases[CaseOf(neg)].call.value = "false"
                         /\ Cases[CaseOf(neg)].call.name = own.name

(***************************************************************************)
(* C20: in every successful run the set of base long spellings reserved in *)
(* the long-spelling namespace equals the set of long spellings entered in *)
(* the command-line table: a negated spelling 'no-X' is reserved exactly   *)
(* when it is generated, that is for boolean options with long spelling X  *)
(* and alternate enabled; a boolean option with alternate disabled         *)
(* reserves nothing beyond X, so another option may declare 'no-X'.        *)
(***************************************************************************)
C20_ReservedEqualsGenerated ==
  Succeeded => DOMAIN g_long_cache = TableNames

(***************************************************************************)
(* C17: once a grammar has been passed to synthFun it is frozen: every     *)
(* later addRule, addRules, addAnyConstant or addAnyVariable raises an     *)
(* error and changes nothing, whereas the same calls with a declared       *)
(* non-terminal and a well-sorted rule succeed at any point before         *)
(* (addAnyConstant and addAnyVariable also when repeated on the same       *)
(* non-terminal).                                                          *)
(***************************************************************************)
Modifiers == {"addRule", "addRules", "addAnyConstant", "addAnyVariable"}
WellFormedCall(c) ==
  /\ c.nt = "start"
  /\ \A r \in c.rules : r \in {"false", "true"}

C17_FrozenAfterSynthFun ==
  /\ grammar.last.op \in Modifiers =>
       /\ grammar.last.wasResolved => grammar.raised
       /\ (~grammar.last.wasResolved /\ WellFormedCall(grammar.last))
            => /\ ~grammar.raised
               /\ \A r \in grammar.last.rules :
                    <<"start", r>> \in grammar.rules
               /\ grammar.last.op = "addAnyConstant"
                    => "start" \in grammar.anyConstant
               /\ grammar.last.op = "addAnyVariable"
                    => "start" \in grammar.anyVariable
  /\ grammar.isResolved => grammar.resolvedAs = {Contents(grammar)}

(* addAnyConstant(start) was accepted before synthFun and is refused after *)
C17_Witness ==
  /\ grammar.isResolved
  /\ "start" \in grammar.anyConstant
  /\ grammar.last.op = "addAnyConstant"
  /\ grammar.last.nt = "start"
  /\ grammar.raised

====
